---- MODULE Spec2Model ----
(***************************************************************************)
(* A model of app/recommender.py (class RecommendationEngine) and of the   *)
(* settings it reads from app/config.py.                                   *)
(*                                                                         *)
(* Conventions.                                                            *)
(*  - Python's None is the empty sequence <<>>; a loaded object x is <<x>>.*)
(*  - A Python dict is a sequence of <<key, value>> pairs with distinct    *)
(*    keys, in insertion order.                                            *)
(*  - Positions are 1-based here and 0-based in the code: catalog row i    *)
(*    and factor row i of the model are row i-1 of the code.               *)
(*  - A score is an exact rational [n |-> numerator, d |-> denominator]    *)
(*    with d > 0; the code uses IEEE doubles, so equalities of scores hold *)
(*    here exactly and in the code up to rounding.                         *)
(*  - A call that raises is an outcome with raised = TRUE.                 *)
(*  - The orders the language leaves open (iteration order of a set of     *)
(*    ids, the order argsort gives equal scores) are nondeterministic.     *)
(***************************************************************************)
EXTENDS Integers, Sequences, FiniteSets, TLC

VARIABLES
    self,            \* the engine: tfidf_vectorizer, tfidf_matrix, cf_model, programs_df, loaded
    files,           \* the state of each artifact file on disk
    cf_pkl,          \* the content of the collaborative model file when it is readable
    last,            \* the last completed call: its arguments and its outcome
    pc,              \* per thread: the position in a concurrent first call
    loadCount,       \* per artifact: how many times it was read from disk
    interests,       \* explanation generator: the user_interests argument
    program,         \* explanation generator: the program row (text, tags_text)
    explanation      \* explanation generator: the value returned

vars == <<self, files, cf_pkl, last, pc, loadCount, interests, program, explanation>>

(* ---------------------------- bounds ---------------------------------- *)

\* Number of catalog rows.
NItems == 3

\* Callers pass a k of 1..MaxK, or leave the default.
MaxK == 2

\* Number of threads making a first call at the same time.
NThreads == 2

\* Longest interests string given to the explanation generator.
MaxLen == 5

(* ---------------------------- helpers --------------------------------- *)

None == <<>>

Some(x) == <<x>>

Min(a, b) == IF a <= b THEN a ELSE b

Range(s) == {s[i] : i \in DOMAIN s}

\* s[:k] for k >= 0
Take(s, k) == SubSeq(s, 1, Min(k, Len(s)))

\* s[-k:] for k >= 1
LastK(s, k) == SubSeq(s, Len(s) - Min(k, Len(s)) + 1, Len(s))

\* s[::-1]
Reverse(s) == [i \in 1..Len(s) |-> s[Len(s) + 1 - i]]

\* list(s): the sequence s as a tuple
List(s) == SubSeq(s, 1, Len(s))

\* Every ordering of the finite set S, as a sequence without repetition.
Orderings(S) ==
    {f \in [1..Cardinality(S) -> S] : \A i, j \in 1..Cardinality(S) : i # j => f[i] # f[j]}

(* ---------------------------- rationals ------------------------------- *)

Rat(n, d) == [n |-> n, d |-> d]

RatLt(a, b) == a.n * b.d < b.n * a.d

RatEq(a, b) == a.n * b.d = b.n * a.d

RatAdd(a, b) == Rat(a.n * b.d + b.n * a.d, a.d * b.d)

RatMul(a, b) == Rat(a.n * b.n, a.d * b.d)

\* a / b for b > 0
RatDiv(a, b) == Rat(a.n * b.d, a.d * b.n)

Zero == Rat(0, 1)

(* ---------------------------- dicts ----------------------------------- *)

Keys(d) == {d[i][1] : i \in DOMAIN d}

\* d.get(key, default)
Get(d, key, default) ==
    IF key \in Keys(d) THEN d[CHOOSE i \in DOMAIN d : d[i][1] = key][2] ELSE default

(* ---------------------------- config.py ------------------------------- *)

\* HYBRID_CONTENT_WEIGHT = 0.6
HYBRID_CONTENT_WEIGHT == Rat(6, 10)

\* HYBRID_CF_WEIGHT = 0.4
HYBRID_CF_WEIGHT == Rat(4, 10)

\* The literal 0.01 of hybrid_recommendations.
RelevanceThreshold == Rat(1, 100)

\* DEFAULT_K = 5, also the default of every k parameter.
DEFAULT_K == 5

\* The literal k=20 hybrid_recommendations passes to both scorers.
WideWindow == 20

(* ---------------------------- artifacts on disk ----------------------- *)

Artifacts == {"vec", "mat", "cf", "progs"}

FileStates == {"absent", "ok", "corrupt"}

ProgramId(i) == 100 + i

\* programs.csv: one row per program, in catalog order.
ProgramsCsv == [i \in 1..NItems |-> [program_id |-> ProgramId(i), text |-> FALSE]]

\* programs_df['text'] = (description + ' ' + tags_text).str.lower()
WithText(programs_df) == [i \in DOMAIN programs_df |-> [programs_df[i] EXCEPT !.text = TRUE]]

\* program_tfidf.pkl: one row per catalog row.
TfidfMatrixPkl == [rows |-> NItems]

TfidfPkl == "tfidf"

Users == {"u1", "u2", "u3"}

UserIdMap == <<<<"u1", 1>>, <<"u2", 2>>, <<"u3", 3>>>>

\* With ItemFactors: u1 scores the programs 2, 1, 1 (a positive maximum, a
\* tie), u2 scores them -2, -1, -1 (all negative) and u3 scores them
\* 0, -1, -2 (a maximum of zero).
UserFactors == <<<<1, 0>>, <<-1, 0>>, <<0, -1>>>>

ItemFactors == [i \in 1..NItems |-> <<IF i = NItems THEN 1 ELSE NItems - i, i - 1>>]

\* item_id_map of a model trained on the present catalog: a bijection.
ItemMapGood == [i \in 1..NItems |-> <<ProgramId(i), i>>]

NotSecond(e) == e[2] # 2

\* A stale model: no program has index 2.
ItemMapGap == SelectSeq(ItemMapGood, NotSecond)

\* A stale model: index 2 names a program that is no longer in the catalog.
ItemMapStale == [i \in 1..NItems |-> <<ProgramId(IF i = 2 THEN NItems + 1 ELSE i), i>>]

\* A stale model: two programs share index 1.
ItemMapDup == [i \in 1..NItems |-> <<ProgramId(i), IF i = 2 THEN 1 ELSE i>>]

CfModel(item_id_map) ==
    [user_id_map |-> UserIdMap, user_factors |-> UserFactors,
     item_id_map |-> item_id_map, item_factors |-> ItemFactors]

\* The contents cf_svd.pkl may have.
CfPickles == {CfModel(m) : m \in {ItemMapGood, ItemMapGap, ItemMapStale, ItemMapDup}}

(* ---------------------------- __init__ -------------------------------- *)

NewEngine ==
    [tfidf_vectorizer |-> None, tfidf_matrix |-> None, cf_model |-> None,
     programs_df |-> None, loaded |-> FALSE]

(* ---------------------------- load_models ----------------------------- *)

\* What a call hands back: the engine after it, the exception it raised
\* ("none" when it returned), how many times it ran the body of load_models,
\* the value returned, and the working dicts of hybrid_recommendations.
Outcome(e, error, loads, ret) ==
    [self |-> e, error |-> error, loads |-> loads, ret |-> ret,
     content_recs |-> <<>>, cf_scores |-> <<>>, hybrid_scores |-> <<>>]

\* `if X.exists(): self.field = load(X)` for a readable file.
LoadVec(e) == IF files.vec = "absent" THEN e ELSE [e EXCEPT !.tfidf_vectorizer = Some(TfidfPkl)]

LoadMat(e) == IF files.mat = "absent" THEN e ELSE [e EXCEPT !.tfidf_matrix = Some(TfidfMatrixPkl)]

LoadCf(e) == IF files.cf = "absent" THEN e ELSE [e EXCEPT !.cf_model = Some(cf_pkl)]

LoadProgs(e) ==
    IF files.progs = "absent" THEN e ELSE [e EXCEPT !.programs_df = Some(WithText(ProgramsCsv))]

\* The try block: the artifacts are read in order, the first unreadable one
\* raises (the handler prints and re-raises) and leaves what was assigned.
LoadBody(e) ==
    IF files.vec = "corrupt" THEN Outcome(e, "LoadError", 1, None)
    ELSE IF files.mat = "corrupt" THEN Outcome(LoadVec(e), "LoadError", 1, None)
    ELSE IF files.cf = "corrupt" THEN Outcome(LoadMat(LoadVec(e)), "LoadError", 1, None)
    ELSE IF files.progs = "corrupt" THEN Outcome(LoadCf(LoadMat(LoadVec(e))), "LoadError", 1, None)
    ELSE Outcome([LoadProgs(LoadCf(LoadMat(LoadVec(e)))) EXCEPT !.loaded = TRUE], "none", 1, None)

\* Mutant: the `if self.loaded: return` guard is missing.
LoadModelsNoGuard(e) == LoadBody(e)

\* Mutant: the handler swallows the failure instead of re-raising it.
LoadModelsSwallow(e) ==
    IF e.loaded THEN Outcome(e, "none", 0, None) ELSE [LoadBody(e) EXCEPT !.error = "none"]

LoadModels(e) ==
    IF e.loaded THEN Outcome(e, "none", 0, None) ELSE LoadBody(e)

\* `if not self.loaded: self.load_models()` at the head of each entry point.
EnsureLoaded(e) ==
    IF ~e.loaded THEN LoadModels(e) ELSE Outcome(e, "none", 0, None)

(* ---------------------------- sorting --------------------------------- *)

\* list.sort(key=score, reverse=True) and sorted(..., reverse=True): a stable
\* sort, so entries with equal scores keep their order. Entries are
\* <<x, score>> pairs.
InsertDesc(sorted, x) ==
    LET after == {i \in 1..Len(sorted) : ~RatLt(sorted[i][2], x[2])}
        pos == IF after = {} THEN 0 ELSE CHOOSE i \in after : \A j \in after : j <= i
    IN SubSeq(sorted, 1, pos) \o <<x>> \o SubSeq(sorted, pos + 1, Len(sorted))

RECURSIVE SortPrefix(_, _)
SortPrefix(s, n) == IF n = 0 THEN <<>> ELSE InsertDesc(SortPrefix(s, n - 1), s[n])

SortDesc(s) == SortPrefix(s, Len(s))

(* ---------------------------- content_based_recommendations ----------- *)

ContentScores == {Zero, Rat(1, 200), Rat(4, 5)}

\* A user_interests string, as the vectorizer sees it: whether its vector is
\* non-zero, and its cosine similarity to each row of the matrix.
Queries ==
    {q \in [sims : [1..NItems -> ContentScores], nonzero : BOOLEAN] :
        q.nonzero \/ \A i \in 1..NItems : q.sims[i] = Zero}

\* cosine_similarity(user_vector, self.tfidf_matrix).flatten(); given None
\* for the matrix, scikit-learn compares the user vector with itself.
CosineSimilarity(q, tfidf_matrix) ==
    IF tfidf_matrix = None
    THEN <<IF q.nonzero THEN Rat(1, 1) ELSE Zero>>
    ELSE q.sims

Positive(p) == RatLt(Zero, p[2])

\* Mutant: the filter keeps zero scores (score >= 0).
RankContentKeepZero(similarities, k) ==
    LET scored_programs == SortDesc([idx \in 1..Len(similarities) |-> <<idx, similarities[idx]>>])
    IN Take(scored_programs, k)

\* Lines 74-81: top_programs, as <<idx, score>> pairs.
RankContent(similarities, k) ==
    LET scored_programs == SortDesc([idx \in 1..Len(similarities) |-> <<idx, similarities[idx]>>])
        relevant_programs == SelectSeq(scored_programs, Positive)
    IN IF Len(relevant_programs) >= k THEN Take(relevant_programs, k) ELSE relevant_programs

\* self.programs_df.iloc[idx] raises when there is no catalog or no such row.
IlocRaises(programs_df, idx) ==
    programs_df = None \/ idx > Len(programs_df[1])

ContentBased(e, q, k) ==
    LET ld == EnsureLoaded(e)
        e1 == ld.self
    IN IF ld.error # "none" THEN ld
       ELSE IF e1.tfidf_vectorizer = None THEN Outcome(e1, "AttributeError", ld.loads, None)
       ELSE LET top_programs == RankContent(CosineSimilarity(q, e1.tfidf_matrix), k)
            IN IF \E i \in DOMAIN top_programs : IlocRaises(e1.programs_df, top_programs[i][1])
               THEN Outcome(e1, IF e1.programs_df = None THEN "AttributeError" ELSE "IndexError",
                            ld.loads, None)
               ELSE Outcome(e1, "none", ld.loads,
                        [i \in DOMAIN top_programs |->
                            <<e1.programs_df[1][top_programs[i][1]].program_id,
                              top_programs[i][2], "content">>])

(* ---------------------------- collaborative_recommendations ----------- *)

Dot(u, v) == u[1] * v[1] + u[2] * v[2]

\* predicted_scores.argsort(): the indices in ascending order of score; the
\* order of equal scores is the sorting routine's.
Argsort(scores) ==
    {p \in Orderings(DOMAIN scores) :
        \A i, j \in DOMAIN p : i < j => scores[p[i]] <= scores[p[j]]}

\* {v: k for k, v in item_id_map.items()}: a later entry replaces an earlier
\* one with the same index.
ReverseItemMap(item_id_map) ==
    LET idxs == {item_id_map[i][2] : i \in DOMAIN item_id_map}
        lastOf(x) == CHOOSE i \in DOMAIN item_id_map :
                        /\ item_id_map[i][2] = x
                        /\ \A j \in DOMAIN item_id_map : item_id_map[j][2] = x => j <= i
    IN [x \in idxs |-> item_id_map[lastOf(x)][1]]

\* programs_df[programs_df['program_id'] == program_id].iloc[0] raises when
\* there is no catalog (TypeError) or no such row (IndexError).
LookupError(programs_df, program_id) ==
    IF programs_df = None THEN "TypeError"
    ELSE IF \A i \in DOMAIN programs_df[1] : programs_df[1][i].program_id # program_id
         THEN "IndexError"
         ELSE "none"

\* Lines 108-127 for one answer of argsort.
CollaborativeRank(e, user_id, k, order, loads) ==
    LET cf == e.cf_model[1]
        user_idx == Get(cf.user_id_map, user_id, 0)
        predicted_scores ==
            [i \in DOMAIN cf.item_factors |-> Dot(cf.user_factors[user_idx], cf.item_factors[i])]
        top_indices == Reverse(LastK(order, k))
        reverse_item_map == ReverseItemMap(cf.item_id_map)
        InMap(idx) == idx \in DOMAIN reverse_item_map
        kept == SelectSeq(top_indices, InMap)
        errors == {LookupError(e.programs_df, reverse_item_map[kept[i]]) : i \in DOMAIN kept}
                     \ {"none"}
    IN IF errors # {}
       THEN Outcome(e, CHOOSE x \in errors : TRUE, loads, None)
       ELSE Outcome(e, "none", loads,
                [i \in DOMAIN kept |->
                    <<reverse_item_map[kept[i]], Rat(predicted_scores[kept[i]], 1),
                      "collaborative">>])

\* Every outcome collaborative_recommendations(user_id, k) may have.
Collaborative(e, user_id, k) ==
    LET ld == EnsureLoaded(e)
        e1 == ld.self
    IN IF ld.error # "none" THEN {ld}
       ELSE IF e1.cf_model = None THEN {Outcome(e1, "none", ld.loads, <<>>)}
       ELSE IF user_id \notin Keys(e1.cf_model[1].user_id_map)
            THEN {Outcome(e1, "none", ld.loads, <<>>)}
       ELSE LET cf == e1.cf_model[1]
                user_idx == Get(cf.user_id_map, user_id, 0)
                predicted_scores ==
                    [i \in DOMAIN cf.item_factors |->
                        Dot(cf.user_factors[user_idx], cf.item_factors[i])]
            IN {CollaborativeRank(e1, user_id, k, order, ld.loads) :
                    order \in Argsort(predicted_scores)}

(* ---------------------------- hybrid_recommendations ------------------ *)

\* The absent user_id (None, or any falsy value).
NoUser == "none"

\* {pid: score for pid, score, _ in recs}
ScoreDict(recs) == [i \in DOMAIN recs |-> <<recs[i][1], recs[i][2]>>]

\* max(cf_scores.values()) for a non-empty dict
MaxValue(d) ==
    d[CHOOSE i \in DOMAIN d : \A j \in DOMAIN d : ~RatLt(d[i][2], d[j][2])][2]

\* Mutant: the guard on the maximum is `max_cf != 0`.
HybridScoreGuardNonZero(content_scores, cf_scores, program_id) ==
    LET content_score == Get(content_scores, program_id, Zero)
        cf_score == Get(cf_scores, program_id, Zero)
        max_cf == MaxValue(cf_scores)
    IN IF cf_scores = <<>> THEN content_score
       ELSE RatAdd(RatMul(HYBRID_CONTENT_WEIGHT, content_score),
                   RatMul(HYBRID_CF_WEIGHT,
                          IF max_cf.n > 0 THEN RatDiv(cf_score, max_cf)
                          ELSE IF max_cf.n < 0
                               THEN RatDiv(Rat(-cf_score.n, cf_score.d), Rat(-max_cf.n, max_cf.d))
                               ELSE Zero))

\* Lines 155-171: the hybrid score of one program of the union.
HybridScore(content_scores, cf_scores, program_id) ==
    LET content_score == Get(content_scores, program_id, Zero)
        cf_score == Get(cf_scores, program_id, Zero)
        cf_score_norm ==
            IF cf_scores # <<>>
            THEN LET max_cf == MaxValue(cf_scores)
                 IN IF RatLt(Zero, max_cf) THEN RatDiv(cf_score, max_cf) ELSE Zero
            ELSE Zero
    IN IF cf_scores # <<>>
       THEN RatAdd(RatMul(HYBRID_CONTENT_WEIGHT, content_score),
                   RatMul(HYBRID_CF_WEIGHT, cf_score_norm))
       ELSE content_score

Relevant(p) == RatLt(RelevanceThreshold, p[2])

\* Mutant: no fallback to the unfiltered ranking.
SelectTopNoFallback(sorted_programs, k) ==
    LET filtered_programs == SelectSeq(sorted_programs, Relevant)
    IN IF Len(filtered_programs) >= k THEN Take(filtered_programs, k) ELSE filtered_programs

\* Lines 179-184: top_programs.
SelectTop(sorted_programs, k) ==
    LET filtered_programs == SelectSeq(sorted_programs, Relevant)
        top_programs ==
            IF Len(filtered_programs) >= k THEN Take(filtered_programs, k) ELSE filtered_programs
    IN IF Len(top_programs) < k THEN Take(sorted_programs, k) ELSE top_programs

\* Lines 150-204 for one collaborative answer and one iteration order of the
\* set all_programs. A recommendation is <<program_id, score, explanation>>:
\* its other entries are copied from the catalog row, and the explanation is
\* "content" for the content explanation and "hybrid" for the fixed one.
Blend(e, content_recs, cf_recs, k, order, loads) ==
    LET content_scores == ScoreDict(content_recs)
        cf_scores == ScoreDict(cf_recs)
        hybrid_scores ==
            [i \in DOMAIN order |-> <<order[i], HybridScore(content_scores, cf_scores, order[i])>>]
        sorted_programs == SortDesc(hybrid_scores)
        top_programs == SelectTop(sorted_programs, k)
        recommendations ==
            [i \in DOMAIN top_programs |->
                <<top_programs[i][1], top_programs[i][2],
                  IF top_programs[i][1] \in Keys(content_scores) THEN "content" ELSE "hybrid">>]
    IN [Outcome(e, "none", loads, recommendations) EXCEPT
            !.content_recs = content_recs, !.cf_scores = cf_scores,
            !.hybrid_scores = hybrid_scores]

\* Every outcome hybrid_recommendations(user_interests, user_id, k) may have.
Hybrid(e, q, user_id, k) ==
    LET ld == EnsureLoaded(e)
    IN IF ld.error # "none" THEN {ld}
       ELSE LET c == ContentBased(ld.self, q, WideWindow)
            IN IF c.error # "none" THEN {[c EXCEPT !.loads = ld.loads + c.loads]}
               ELSE LET cfs == IF user_id # NoUser
                               THEN Collaborative(c.self, user_id, WideWindow)
                               ELSE {Outcome(c.self, "none", 0, <<>>)}
                    IN UNION {
                        IF cf.error # "none"
                        THEN {[cf EXCEPT !.loads = ld.loads + c.loads + cf.loads]}
                        ELSE {Blend(cf.self, c.ret, cf.ret, k, order,
                                    ld.loads + c.loads + cf.loads) :
                                order \in Orderings({c.ret[i][1] : i \in DOMAIN c.ret}
                                                    \cup {cf.ret[i][1] : i \in DOMAIN cf.ret})}
                        : cf \in cfs}

(* ---------------------------- sequential calls ------------------------ *)

NoCall ==
    [op |-> "none", q |-> <<>>, user_id |-> NoUser, k |-> 0,
     error |-> "none", loads |-> 0, ret |-> <<>>,
     content_recs |-> <<>>, cf_scores |-> <<>>, hybrid_scores |-> <<>>]

\* The record of a completed call: what was called with which arguments, and
\* its outcome.
Call(op, q, user_id, k, o) ==
    [op |-> op, q |-> q, user_id |-> user_id, k |-> k,
     error |-> o.error, loads |-> o.loads, ret |-> List(o.ret),
     content_recs |-> List(o.content_recs), cf_scores |-> List(o.cf_scores),
     hybrid_scores |-> List(o.hybrid_scores)]

UserIds == Users \cup {NoUser, "ux"}

Idle ==
    /\ pc = [t \in 1..NThreads |-> "off"]
    /\ loadCount = [a \in Artifacts |-> 0]
    /\ interests = <<>>
    /\ program = [text |-> <<>>, tags_text |-> <<>>]
    /\ explanation = <<>>

Init ==
    /\ self = NewEngine
    /\ files \in [Artifacts -> FileStates]
    /\ cf_pkl \in CfPickles
    /\ files.cf # "ok" => cf_pkl = CfModel(ItemMapGood)
    /\ last = NoCall
    /\ Idle

Frame == UNCHANGED <<files, cf_pkl, pc, loadCount, interests, program, explanation>>

\* engine.load_models()
LoadModelsCall ==
    /\ last.op = "none"
    /\ LET o == LoadModels(self)
       IN /\ self' = o.self
          /\ last' = Call("load_models", <<>>, NoUser, 0, o)
    /\ Frame

\* engine.content_based_recommendations(user_interests, k)
ContentCall(Q, K) ==
    /\ last.op = "none"
    /\ \E q \in Q, k \in K :
        LET o == ContentBased(self, q, k)
        IN /\ self' = o.self
           /\ last' = Call("content", q, NoUser, k, o)
    /\ Frame

\* engine.collaborative_recommendations(user_id, k)
CollaborativeCall(U, K) ==
    /\ last.op = "none"
    /\ \E user_id \in U \ {NoUser}, k \in K :
        \E o \in Collaborative(self, user_id, k) :
           /\ self' = o.self
           /\ last' = Call("collaborative", <<>>, user_id, k, o)
    /\ Frame

\* engine.hybrid_recommendations(user_interests, user_id, k)
HybridCall(Q, U, K) ==
    /\ last.op = "none"
    /\ \E q \in Q, user_id \in U, k \in K :
        \E o \in Hybrid(self, q, user_id, k) :
           /\ self' = o.self
           /\ last' = Call("hybrid", q, user_id, k, o)
    /\ Frame

\* The caller is done with what the call handed back.
Discard ==
    /\ last.op # "none"
    /\ last' = NoCall
    /\ UNCHANGED self
    /\ Frame

Ks == 1..MaxK \cup {DEFAULT_K}

Next ==
    \/ LoadModelsCall
    \/ ContentCall(Queries, Ks)
    \/ CollaborativeCall(UserIds, Ks)
    \/ HybridCall(Queries, UserIds, Ks)
    \/ Discard

\* One engine, used by one caller at a time, the files on disk fixed.
Spec == Init /\ [][Next]_vars

(* ---------------------------- the files change ------------------------ *)

\* Between calls a file is written, removed or damaged.
FileChange ==
    /\ last.op = "none"
    /\ \E a \in Artifacts, st \in FileStates, content \in CfPickles :
        /\ files[a] # st
        /\ files' = [files EXCEPT ![a] = st]
        /\ cf_pkl' = IF a = "cf" /\ st = "ok" THEN content
                     ELSE IF a = "cf" THEN CfModel(ItemMapGood)
                     ELSE cf_pkl
    /\ UNCHANGED <<self, last, pc, loadCount, interests, program, explanation>>

LifeQueries ==
    {q \in Queries : \A i \in 1..NItems : q.sims[i] = q.sims[1] /\ q.sims[i] # Rat(1, 200)}

NextLife ==
    \/ LoadModelsCall
    \/ ContentCall(LifeQueries, {DEFAULT_K})
    \/ CollaborativeCall({"u1", "ux"}, {DEFAULT_K})
    \/ HybridCall(LifeQueries, {NoUser, "u1"}, {DEFAULT_K})
    \/ Discard
    \/ FileChange

\* One engine, used by one caller at a time, while the files on disk change.
SpecLife == Init /\ [][NextLife]_vars

(* ---------------------------- concurrent first calls ----------------- *)

Threads == 1..NThreads

InitConc ==
    /\ self = NewEngine
    /\ files \in [Artifacts -> FileStates]
    /\ cf_pkl \in CfPickles
    /\ files.cf # "ok" => cf_pkl = CfModel(ItemMapGood)
    /\ last = NoCall
    /\ pc = [t \in Threads |-> "start"]
    /\ loadCount = [a \in Artifacts |-> 0]
    /\ interests = <<>>
    /\ program = [text |-> <<>>, tags_text |-> <<>>]
    /\ explanation = <<>>

FrameConc == UNCHANGED <<files, cf_pkl, last, interests, program, explanation>>

Goto(t, label) == pc' = [pc EXCEPT ![t] = label]

\* `if not self.loaded:` at the head of the entry point.
TCheck(t) ==
    /\ pc[t] = "start"
    /\ Goto(t, IF self.loaded THEN "score" ELSE "guard")
    /\ UNCHANGED <<self, loadCount>>
    /\ FrameConc

\* `if self.loaded: return` at the head of load_models.
TGuard(t) ==
    /\ pc[t] = "guard"
    /\ Goto(t, IF self.loaded THEN "score" ELSE "vec")
    /\ UNCHANGED <<self, loadCount>>
    /\ FrameConc

\* One `if X.exists(): self.field = load(X)` of the try block.
TLoad(t, a, loaded_e, next) ==
    /\ pc[t] = a
    /\ IF files[a] = "corrupt"
       THEN Goto(t, "raised") /\ UNCHANGED <<self, loadCount>>
       ELSE /\ Goto(t, IF a = "progs" /\ files[a] = "absent" THEN "mark" ELSE next)
            /\ self' = loaded_e
            /\ loadCount' = IF files[a] = "ok"
                            THEN [loadCount EXCEPT ![a] = @ + 1] ELSE loadCount
    /\ FrameConc

TLoadVec(t) == TLoad(t, "vec", LoadVec(self), "mat")

TLoadMat(t) == TLoad(t, "mat", LoadMat(self), "cf")

TLoadCf(t) == TLoad(t, "cf", LoadCf(self), "progs")

\* self.programs_df = pd.read_csv(PROGRAMS_FILE)
TLoadProgs(t) ==
    TLoad(t, "progs",
          IF files.progs = "absent" THEN self ELSE [self EXCEPT !.programs_df = Some(ProgramsCsv)],
          "text")

\* self.programs_df['text'] = ..., on whatever self.programs_df is by now.
TText(t) ==
    /\ pc[t] = "text"
    /\ self' = [self EXCEPT !.programs_df = Some(WithText(self.programs_df[1]))]
    /\ Goto(t, "mark")
    /\ UNCHANGED loadCount
    /\ FrameConc

\* self.loaded = True
TMark(t) ==
    /\ pc[t] = "mark"
    /\ self' = [self EXCEPT !.loaded = TRUE]
    /\ Goto(t, "score")
    /\ UNCHANGED loadCount
    /\ FrameConc

\* The rest of the entry point: it reads the artifacts and returns.
TScore(t) ==
    /\ pc[t] = "score"
    /\ Goto(t, "done")
    /\ UNCHANGED <<self, loadCount>>
    /\ FrameConc

NextConc ==
    \E t \in Threads :
        \/ TCheck(t)
        \/ TGuard(t)
        \/ TLoadVec(t)
        \/ TLoadMat(t)
        \/ TLoadCf(t)
        \/ TLoadProgs(t)
        \/ TText(t)
        \/ TMark(t)
        \/ TScore(t)

\* NThreads threads make their first call on one new engine; a step is one
\* statement of load_models.
SpecConc == InitConc /\ [][NextConc]_vars

(* ---------------------------- _generate_content_explanation ---------- *)

\* A string is a sequence of characters. A fixed phrase of an f-string is
\* one element, so that an explanation is the concatenation Python builds.

UpperLetters == <<"A", "B", "C", "D", "E", "F", "G", "H", "I", "J", "K", "L", "M", "N", "O", "P", "Q", "R", "S", "T", "U", "V", "W", "X", "Y", "Z">>

LowerLetters == <<"a", "b", "c", "d", "e", "f", "g", "h", "i", "j", "k", "l", "m", "n", "o", "p", "q", "r", "s", "t", "u", "v", "w", "x", "y", "z">>

\* str.lower(), one character
LowerChar(c) ==
    IF \E i \in DOMAIN UpperLetters : UpperLetters[i] = c
    THEN LowerLetters[CHOOSE i \in DOMAIN UpperLetters : UpperLetters[i] = c]
    ELSE c

\* str.lower()
Lower(s) == [i \in DOMAIN s |-> LowerChar(s[i])]

Whitespace == {" "}

RECURSIVE LStrip(_)
LStrip(s) == IF s # <<>> /\ s[1] \in Whitespace THEN LStrip(Tail(s)) ELSE s

RECURSIVE RStrip(_)
RStrip(s) ==
    IF s # <<>> /\ s[Len(s)] \in Whitespace THEN RStrip(SubSeq(s, 1, Len(s) - 1)) ELSE s

\* str.strip()
Strip(s) == RStrip(LStrip(s))

RECURSIVE SplitFrom(_, _, _)
SplitFrom(s, i, cur) ==
    IF i > Len(s) THEN <<cur>>
    ELSE IF s[i] = "," THEN <<cur>> \o SplitFrom(s, i + 1, <<>>)
    ELSE SplitFrom(s, i + 1, Append(cur, s[i]))

\* str.split(',')
SplitComma(s) == SplitFrom(s, 1, <<>>)

\* x in t, for strings
IsSubstring(x, t) ==
    \E p \in 0..(Len(t) - Len(x)) : \A i \in 1..Len(x) : t[p + i] = x[i]

\* The 'text' column load_models derives: (description + ' ' + tags_text).lower()
TextOf(description, tags_text) == Lower(description \o <<" ">> \o tags_text)

CharRank(c) ==
    IF \E i \in DOMAIN LowerLetters : LowerLetters[i] = c
    THEN CHOOSE i \in DOMAIN LowerLetters : LowerLetters[i] = c
    ELSE 0

LexLess(a, b) ==
    \E i \in 1..(Min(Len(a), Len(b)) + 1) :
        /\ \A j \in 1..(i - 1) : a[j] = b[j]
        /\ \/ (i > Len(a) /\ i <= Len(b))
           \/ (i <= Len(a) /\ i <= Len(b) /\ CharRank(a[i]) < CharRank(b[i]))

\* Mutant: the matches are sorted alphabetically.
MatchesSorted(user_interests, row) ==
    LET interests_list ==
            [i \in DOMAIN SplitComma(user_interests) |->
                Lower(Strip(SplitComma(user_interests)[i]))]
        program_text == Lower(row.text)
        InText(interest) == IsSubstring(interest, program_text)
    IN SortSeq(List(SelectSeq(interests_list, InText)), LexLess)

\* Lines 208-217: matches.
Matches(user_interests, row) ==
    LET interests_list ==
            [i \in DOMAIN SplitComma(user_interests) |->
                Lower(Strip(SplitComma(user_interests)[i]))]
        program_text == Lower(row.text)
        InText(interest) == IsSubstring(interest, program_text)
    IN SelectSeq(interests_list, InText)

Recommended == <<"Recommended because you're interested in ">>

Focuses == <<", and this program focuses on ">>

Generic == <<"This program focuses on ">>

MayAlign == <<", which may align with your background and interests.">>

\* Lines 219-229.
GenerateContentExplanation(user_interests, row) ==
    LET matches == Matches(user_interests, row)
        matched_text ==
            IF Len(matches) = 1 THEN matches[1]
            ELSE IF Len(matches) = 2 THEN matches[1] \o <<" and ">> \o matches[2]
            ELSE matches[1] \o <<", ">> \o matches[2] \o <<", and others">>
    IN IF matches # <<>>
       THEN Recommended \o matched_text \o Focuses \o row.tags_text \o <<".">>
       ELSE Generic \o row.tags_text \o MayAlign

Alphabet == {"a", "b", "A", " ", ","}

RECURSIVE Strings(_)
Strings(n) ==
    IF n = 0 THEN {<<>>}
    ELSE Strings(n - 1) \cup {Append(x, c) : x \in Strings(n - 1), c \in Alphabet}

\* A catalog row as loaded: tags_text, and the text column derived from the
\* description and the tags.
Row(description, tags_text) ==
    [text |-> TextOf(description, tags_text), tags_text |-> tags_text]

Rows == {Row(<<"b">>, <<"A">>), Row(<<"b">>, <<"b">>)}

ExampleInterests == <<"p", "y", "t", "h", "o", "n", ",", " ", "d", "a", "t", "a", " ", "a", "n", "a", "l", "y", "s", "i", "s">>

ExampleRow ==
    Row(<<"L", "e", "a", "r", "n">>,
        <<"P", "y", "t", "h", "o", "n", ",", " ", "S", "t", "a", "t", "i", "s", "t", "i", "c", "s", ",", " ", "D", "a", "t", "a", " ", "A", "n", "a", "l", "y", "s", "i", "s">>)

InitExplain ==
    /\ \/ interests \in Strings(MaxLen) /\ program \in Rows
       \/ interests = ExampleInterests /\ program = ExampleRow
    /\ explanation = <<>>
    /\ self = NewEngine
    /\ files = [a \in Artifacts |-> "ok"]
    /\ cf_pkl = CfModel(ItemMapGood)
    /\ last = NoCall
    /\ pc = [t \in Threads |-> "off"]
    /\ loadCount = [a \in Artifacts |-> 0]

\* self._generate_content_explanation(user_interests, program)
Explain ==
    /\ explanation = <<>>
    /\ explanation' = GenerateContentExplanation(interests, program)
    /\ UNCHANGED <<self, files, cf_pkl, last, pc, loadCount, interests, program>>

\* The explanation generator on every interests string of at most MaxLen
\* characters and on the documented example.
SpecExplain == InitExplain /\ [][Explain]_vars

(* ====================================================================== *)
(* Properties                                                             *)
(* ====================================================================== *)

ReturnedFrom(op) == last.op = op /\ last.error = "none"

\* The ids of the union of the two wide rankings of the last hybrid call.
UnionIds == Keys(last.content_recs) \cup Keys(last.cf_scores)

SimsPositive(q) == {i \in 1..NItems : RatLt(Zero, q.sims[i])}

\* C1: a hybrid call that returns hands back exactly min(k, size of the
\* union of the two wide rankings) results, whatever the scores are; with
\* NItems = 3 positive content scores, no user id and k = 5 it hands back the
\* 3 programs of the content ranking.
C1_HybridCount ==
    ReturnedFrom("hybrid") =>
        /\ Len(last.ret) = Min(last.k, Cardinality(UnionIds))
        /\ {last.ret[i][1] : i \in DOMAIN last.ret} \subseteq UnionIds
        /\ (/\ last.user_id = NoUser
            /\ last.k = DEFAULT_K
            /\ Len(last.content_recs) = NItems)
           => /\ Len(last.ret) = NItems
              /\ \A i \in DOMAIN last.ret : last.ret[i][3] = "content"

\* C1 witness: the fallback acted: the union holds at least k ids, no hybrid
\* score is above the threshold, and k results came back.
C1_Witness ==
    /\ ReturnedFrom("hybrid")
    /\ Cardinality(UnionIds) > last.k
    /\ last.cf_scores # <<>>
    /\ \A i \in DOMAIN last.hybrid_scores : ~Relevant(last.hybrid_scores[i])
    /\ Len(last.ret) = last.k

\* The user of the last call has no collaborative signal: there is no model,
\* or the model does not know the user.
ColdUser ==
    /\ last.user_id # NoUser
    /\ self.loaded
    /\ \/ self.cf_model = None
       \/ last.user_id \notin Keys(self.cf_model[1].user_id_map)

\* C2 (as claimed): for a user without collaborative signal the collaborative
\* call returns the empty list, and the hybrid call returns the head of the
\* content ranking: the same programs with the same scores in the same order.
C2_ColdStartContentOrder ==
    /\ (last.op = "collaborative" /\ ColdUser) => (last.error = "none" /\ last.ret = <<>>)
    /\ (ReturnedFrom("hybrid") /\ ColdUser) =>
          /\ Len(last.ret) = Min(last.k, Len(last.content_recs))
          /\ \A i \in DOMAIN last.ret :
                /\ last.ret[i][1] = last.content_recs[i][1]
                /\ last.ret[i][2] = last.content_recs[i][2]

\* C2, the part the code keeps: the empty collaborative list, and hybrid
\* scores equal to the content scores, in non-increasing order.
C2_ColdStartScores ==
    /\ (last.op = "collaborative" /\ ColdUser) => (last.error = "none" /\ last.ret = <<>>)
    /\ (ReturnedFrom("hybrid") /\ ColdUser) =>
          /\ Len(last.ret) = Min(last.k, Len(last.content_recs))
          /\ \A i \in DOMAIN last.ret :
                last.ret[i][2] = Get(last.content_recs, last.ret[i][1], Zero)
          /\ \A i, j \in DOMAIN last.ret : i < j => ~RatLt(last.ret[i][2], last.ret[j][2])

\* The load completed with the vectorizer or the matrix absent.
ContentUnavailable ==
    self.loaded /\ (self.tfidf_vectorizer = None \/ self.tfidf_matrix = None)

\* C3 (as claimed): when the load completed without the vectorizer or without
\* the matrix, the content call returns the empty ranking and the hybrid call
\* returns; neither raises.
C3_AbsentContentDegrades ==
    ContentUnavailable =>
        /\ last.op = "content" => (last.error = "none" /\ last.ret = <<>>)
        /\ last.op = "hybrid" => last.error = "none"

\* C6: while an artifact file is unreadable every call runs the body of
\* load_models once, ends with the load failure instead of a return value,
\* and leaves the engine not loaded.
C6_LoadFailureSurfaces ==
    (last.op # "none" /\ \E a \in Artifacts : files[a] = "corrupt") =>
        /\ last.error = "LoadError"
        /\ last.loads = 1
        /\ ~self.loaded

\* C6 witness: a hybrid call failed on the last file read, after the earlier
\* artifacts were assigned.
C6_Witness ==
    /\ last.op = "hybrid"
    /\ last.error = "LoadError"
    /\ files.progs = "corrupt"
    /\ self.tfidf_vectorizer # None
    /\ ~self.loaded

ContentReady ==
    self.loaded /\ self.tfidf_vectorizer # None /\ self.tfidf_matrix # None
                /\ self.programs_df # None

\* Catalog row i ranks before row j: a higher score, or an equal score and a
\* lower index.
RanksBefore(q, i, j) ==
    \/ RatLt(q.sims[j], q.sims[i])
    \/ (q.sims[i] = q.sims[j] /\ i < j)

\* C7: with the three content artifacts loaded, the content call returns
\* min(k, number of positive scores) programs, each with a positive score
\* and its own similarity, in ranking order (score descending, lower catalog
\* index first among equals), and every positive program left out ranks
\* after every program returned.
C7_ContentRanking ==
    (last.op = "content" /\ ContentReady) =>
        /\ last.error = "none"
        /\ Len(last.ret) = Min(last.k, Cardinality(SimsPositive(last.q)))
        /\ \E idx \in [DOMAIN last.ret -> SimsPositive(last.q)] :
              /\ \A i \in DOMAIN last.ret :
                    /\ last.ret[i][1] = ProgramId(idx[i])
                    /\ last.ret[i][2] = last.q.sims[idx[i]]
              /\ \A i, j \in DOMAIN last.ret : i < j => RanksBefore(last.q, idx[i], idx[j])
              /\ \A r \in SimsPositive(last.q) \ Range(idx) :
                    \A i \in DOMAIN last.ret : RanksBefore(last.q, idx[i], r)

\* C7 witness: fewer than k results, with a tie and a zero score left out.
C7_Witness ==
    /\ ReturnedFrom("content")
    /\ ContentReady
    /\ Len(last.ret) = 2
    /\ last.k > 2
    /\ last.ret[1][2] = last.ret[2][2]
    /\ \E i \in 1..NItems : last.q.sims[i] = Zero

\* C8: when the collaborative dict is not empty, hybrid_scores has one entry
\* per id of the union, and the entry of a program with content score c
\* (0 when absent) and collaborative score f (0 when absent) is
\* 0.6 * c + 0.4 * f / m when the maximum m of the collaborative scores is
\* positive and 0.6 * c when it is not; 0.8 and 0.5 give 0.68.
C8_HybridFormula ==
    (ReturnedFrom("hybrid") /\ last.cf_scores # <<>>) =>
        /\ Keys(last.hybrid_scores) = UnionIds
        /\ Len(last.hybrid_scores) = Cardinality(UnionIds)
        /\ \A i \in DOMAIN last.hybrid_scores :
              LET pid == last.hybrid_scores[i][1]
                  h == last.hybrid_scores[i][2]
                  c == Get(last.content_recs, pid, Zero)
                  f == Get(last.cf_scores, pid, Zero).n
                  m == CHOOSE x \in {last.cf_scores[j][2].n : j \in DOMAIN last.cf_scores} :
                          \A j \in DOMAIN last.cf_scores : last.cf_scores[j][2].n <= x
              IN /\ m > 0 => h.n * (10 * c.d * m) = (6 * c.n * m + 4 * f * c.d) * h.d
                 /\ m <= 0 => h.n * (10 * c.d) = (6 * c.n) * h.d
                 /\ (m > 0 /\ c = Rat(4, 5) /\ 2 * f = m) => RatEq(h, Rat(68, 100))

\* C8 witness: a program with content score 0.8 and normalized collaborative
\* score 0.5 got 0.68.
C8_Witness ==
    /\ ReturnedFrom("hybrid")
    /\ \E i \in DOMAIN last.hybrid_scores :
          LET pid == last.hybrid_scores[i][1]
          IN /\ Get(last.content_recs, pid, Zero) = Rat(4, 5)
             /\ Get(last.cf_scores, pid, Zero) = Rat(1, 1)
             /\ MaxValue(last.cf_scores) = Rat(2, 1)
             /\ RatEq(last.hybrid_scores[i][2], Rat(68, 100))

\* The user of the last call is known to the loaded collaborative model.
KnownUser ==
    /\ self.loaded
    /\ self.cf_model # None
    /\ last.user_id \in Keys(self.cf_model[1].user_id_map)

\* C10 (as claimed): for a known user, with the catalog loaded, the
\* collaborative call does not raise, whatever the model's item map names;
\* it returns at most k programs in non-increasing score order.
C10_StaleModelNeverRaises ==
    (last.op = "collaborative" /\ KnownUser /\ self.programs_df # None) =>
        /\ last.error = "none"
        /\ Len(last.ret) <= last.k
        /\ \A i, j \in DOMAIN last.ret : i < j => ~RatLt(last.ret[i][2], last.ret[j][2])

Field(e, a) ==
    CASE a = "vec" -> e.tfidf_vectorizer
      [] a = "mat" -> e.tfidf_matrix
      [] a = "cf" -> e.cf_model
      [] a = "progs" -> e.programs_df

\* C4 (as claimed): when no file is unreadable, concurrent first calls read
\* each artifact at most once, and a thread that goes on to score sees every
\* artifact whose file exists.
C4_LoadedOnceNoPartial ==
    (\A a \in Artifacts : files[a] # "corrupt") =>
        /\ \A a \in Artifacts : loadCount[a] <= 1
        /\ \A t \in Threads : pc[t] = "score" =>
              \A a \in Artifacts : files[a] = "ok" => Field(self, a) # None

\* C4, the part the code keeps: a thread that goes on to score sees the
\* engine marked loaded and every artifact whose file exists.
C4_NoUnsetArtifactAtScoring ==
    \A t \in Threads : pc[t] \in {"score", "done"} =>
        /\ self.loaded
        /\ \A a \in Artifacts : files[a] = "ok" => Field(self, a) # None

\* C5: once the engine is loaded no call runs the body of load_models and no
\* step changes the engine, whatever happens to the files; in particular
\* loaded stays true.
C5_LoadIdempotent ==
    [][self.loaded => (self' = self /\ last'.loads = 0)]_vars

\* C5 witness: load_models was called on an engine loaded without a
\* vectorizer after the vectorizer file appeared; it ran no load.
C5_Witness ==
    /\ self.loaded
    /\ last.op = "load_models"
    /\ last.error = "none"
    /\ last.loads = 0
    /\ self.tfidf_vectorizer = None
    /\ files.vec = "ok"

\* The positions of the commas of the interests string, and the part of the
\* string between the (n-1)-th and the n-th comma.
Commas == {p \in DOMAIN interests : interests[p] = ","}

CommaAt(n) ==
    IF n = 0 THEN 0
    ELSE IF n > Cardinality(Commas) THEN Len(interests) + 1
    ELSE CHOOSE p \in Commas : Cardinality({c \in Commas : c <= p}) = n

\* The n-th term: that part without the spaces around it, in lower case.
Term(n) ==
    LET inner == {p \in (CommaAt(n - 1) + 1)..(CommaAt(n) - 1) : interests[p] # " "}
        first == CHOOSE p \in inner : \A r \in inner : p <= r
        final == CHOOSE p \in inner : \A r \in inner : r <= p
    IN IF inner = {} THEN <<>>
       ELSE [i \in 1..(final - first + 1) |-> LowerChar(interests[first + i - 1])]

\* The terms that occur in the row's text, by position in the string.
Matching == {n \in 1..(Cardinality(Commas) + 1) : IsSubstring(Term(n), program.text)}

\* The n-th matching term, in the order given.
Match(n) == Term(CHOOSE m \in Matching : Cardinality({r \in Matching : r <= m}) = n)

Tail2 == Focuses \o program.tags_text \o <<".">>

\* C9: the explanation names the terms of the interests string (split at
\* commas, trimmed, lower case) that occur in the row's text, in the order
\* given: the one term, or both joined by " and ", or the first two followed
\* by "and others"; with no such term it is the generic sentence on the
\* row's tags. "python, data analysis" against the tags "Python, Statistics,
\* Data Analysis" names "python and data analysis".
C9_ExplanationNamesMatches ==
    explanation # <<>> =>
        /\ Cardinality(Matching) = 0 => explanation = Generic \o program.tags_text \o MayAlign
        /\ Cardinality(Matching) = 1 => explanation = Recommended \o Match(1) \o Tail2
        /\ Cardinality(Matching) = 2 =>
              explanation = Recommended \o Match(1) \o <<" and ">> \o Match(2) \o Tail2
        /\ Cardinality(Matching) >= 3 =>
              explanation =
                  Recommended \o Match(1) \o <<", ">> \o Match(2) \o <<", and others">> \o Tail2
        /\ (interests = ExampleInterests /\ program = ExampleRow) =>
              explanation = Recommended \o <<"p", "y", "t", "h", "o", "n">>
                                \o <<" and ">> \o <<"d", "a", "t", "a", " ", "a", "n", "a", "l", "y", "s", "i", "s">>
                                \o Tail2

\* C9 witness: three terms match, given in the order b, a, b (the second as
\* "A"); the explanation names b, then a, and not the third.
C9_Witness ==
    /\ interests = <<"b", ",", "A", ",", "b">>
    /\ program = Row(<<"b">>, <<"A">>)
    /\ explanation = Recommended \o <<"b">> \o <<", ">> \o <<"a">> \o <<", and others">>
                        \o Focuses \o <<"A">> \o <<".">>

====
